---- MODULE Spec2Model ----
(***************************************************************************)
(* A model of the WordPress scanner (scanner.py): the detector             *)
(* is_wordpress, the plugin prober check_plugin, the enumerator            *)
(* enumerate_plugins and the vulnerability resolver get_plugin_cves.       *)
(*                                                                         *)
(* Text is modelled as a sequence of one-character strings, so that        *)
(* parsing (LooseVersion, the "Stable tag" pattern) is computed and not    *)
(* assumed. Python's None is the distinguished value NoneVal. Every        *)
(* network answer is an input drawn when the request is made.              *)
(***************************************************************************)
EXTENDS Integers, Sequences, FiniteSets, TLC

VARIABLES
    target_url,     \* self.target_url
    \* is_wordpress
    wp_pc,          \* "idle" | "root" | "rest" | "done"
    indicators,     \* the indicators dict
    root_response,  \* the answer to the root GET (NoAnswer before the request)
    rest_response,  \* the answer to the /wp-json/ GET
    wp_requests,    \* the requests is_wordpress has sent, in order
    \* check_plugin
    cp_pc,          \* "idle" | "readme" | "asset" | "done" | "raised"
    cp_slug,        \* plugin_slug
    cp_result,      \* the result dict
    readme_response,\* the answer to the readme.txt GET
    file_response,  \* the answer to the asset HEAD
    cp_requests,    \* the requests check_plugin has sent, in order
    \* enumerate_plugins
    en_pc,          \* "idle" | "root" | "html" | "pool" | "done" | "raised"
    en_scan_level,  \* scan_level
    plugin_file,    \* plugin_list.txt
    en_root,        \* the kind of answer the root GET got
    en_html_todo,   \* the slugs of slugs_from_html the loop has yet to visit
    found_slugs,    \* found_slugs
    en_result,      \* the result dict
    common_plugins, \* common_plugins
    futures,        \* the submitted calls: slug, state, returned plugin_info
    en_next,        \* the place in futures of the loop of line 247
    en_probes,      \* history: every call of check_plugin, with its stage
    \* get_plugin_cves
    cv_pc,          \* "idle" | "tier1" | "tier2" | "done"
    cv_slug,        \* plugin_slug
    cv_version,     \* version (NoneVal or text)
    api_token,      \* os.environ.get('WPSCAN_API_TOKEN')
    wp_response,    \* the registry's answer (NoAnswer before the request)
    api_response,   \* the paid API's answer (NoAnswer when not requested)
    cv_tier1,       \* history: is_outdated and latest_version when tier 1 ended
    cv_requests,    \* the requests get_plugin_cves has sent, in order
    cv_result,      \* the result dict (NoResult before the call)
    \* start_scan (app.py)
    sc_pc,          \* "idle" | "detect" | "enumerate" | "resolve" | "done"
    cve_futures,    \* the submitted calls of get_plugin_cves: plugin, state, report
    cve_next,       \* the place in futures of the loop of line 58
    cve_results,    \* cve_results
    results,        \* the results dict, by the keys set so far (NoResult before line 42)
    \* the two worker pools of a scan, by numbers of calls
    pool_pc,          \* "idle" | "probes" | "cves" | "done"
    probes_queued,    \* calls of check_plugin submitted and not yet taken by a worker
    probes_in_flight, \* calls of check_plugin a worker is running
    probes_done,      \* calls of check_plugin that have returned
    probes_peak,      \* history: the most calls of check_plugin in flight so far
    cves_queued,      \* the same for the calls of get_plugin_cves
    cves_in_flight,
    cves_done

wp_vars == <<wp_pc, indicators, root_response, rest_response, wp_requests>>

cp_vars == <<cp_pc, cp_slug, cp_result, readme_response, file_response, cp_requests>>

en_vars == <<en_pc, en_scan_level, plugin_file, en_root, en_html_todo, found_slugs,
             en_result, common_plugins, futures, en_next, en_probes>>

cv_vars == <<cv_pc, cv_slug, cv_version, api_token, wp_response, api_response,
             cv_tier1, cv_requests, cv_result>>

sc_vars == <<sc_pc, cve_futures, cve_next, cve_results, results>>

pool_vars == <<pool_pc, probes_queued, probes_in_flight, probes_done, probes_peak,
               cves_queued, cves_in_flight, cves_done>>

vars == <<target_url, wp_vars, cp_vars, en_vars, cv_vars, sc_vars, pool_vars>>

----------------------------------------------------------------------------
(* Bounds *)

MaxVerLen == 2      \* enumerated version texts have at most this many characters
MaxVulns == 1       \* vulnerabilities in one answer of the paid API
MaxHtmlLen == 3     \* fragments of a fetched page
MaxReadmeLen == 2   \* header lines of a readme.txt
MaxListLen == 2     \* lines of plugin_list.txt
MaxCandidates == 22 \* candidate slugs submitted to the pool of check_plugin
MaxPlugins == 12    \* discovered plugins submitted to the pool of get_plugin_cves

----------------------------------------------------------------------------
(* Text *)

NoneVal == <<"None">>

\* a response variable before its request is made
NoAnswer == [kind |-> "none"]

\* a result variable before its call
NoResult == [none |-> TRUE]

\* requests.Timeout and requests.ConnectionError, the network failures;
\* both are subclasses of requests.RequestException
NetworkFailures == {"Timeout", "ConnectionError"}

\* Python truthiness of an Optional[str]
Truthy(s) == s # NoneVal /\ s # <<>>

SeqsUpTo(S, n) == UNION {[1..k -> S] : k \in 0..n}

Min(S) == CHOOSE x \in S : \A y \in S : x <= y

DigitChars == {"0", "1", "2", "3", "4", "5", "6", "7", "8", "9"}
LetterChars == {"a", "b"}

DigitVal(c) ==
    CASE c = "0" -> 0 [] c = "1" -> 1 [] c = "2" -> 2 [] c = "3" -> 3
      [] c = "4" -> 4 [] c = "5" -> 5 [] c = "6" -> 6 [] c = "7" -> 7
      [] c = "8" -> 8 [] c = "9" -> 9

LetterOrd(c) == CASE c = "a" -> 1 [] c = "b" -> 2

RECURSIVE IntOf(_)
\* int(text) of a run of digits
IntOf(ds) ==
    IF ds = <<>> THEN 0
    ELSE 10 * IntOf(SubSeq(ds, 1, Len(ds) - 1)) + DigitVal(ds[Len(ds)])

\* the end of the maximal run of characters of class C that starts at s[i]
RunEnd(s, i, C) ==
    CHOOSE j \in i..Len(s) :
        /\ \A k \in i..j : s[k] \in C
        /\ (j = Len(s) \/ s[j + 1] \notin C)

\* texts used as examples
V_1_0 == <<"1", ".", "0">>
V_1_0_0 == <<"1", ".", "0", ".", "0">>
V_1_9 == <<"1", ".", "9">>
V_1_10 == <<"1", ".", "1", "0">>
V_1_5 == <<"1", ".", "5">>
V_2_0 == <<"2", ".", "0">>
V_2_5 == <<"2", ".", "5">>
V_5_4_2 == <<"5", ".", "4", ".", "2">>
V_5_5_0 == <<"5", ".", "5", ".", "0">>
V_1_a == <<"1", ".", "a">>
V_a == <<"a">>

----------------------------------------------------------------------------
(* distutils.version.LooseVersion, as get_plugin_cves uses it.  The texts  *)
(* of the model hold digits, dots and the lowercase letters a, b.          *)

IntComp(n) == [int |-> TRUE, n |-> n, s |-> <<>>]
StrComp(s) == [int |-> FALSE, n |-> 0, s |-> s]

RECURSIVE parse_from(_, _)
\* LooseVersion.parse: runs of digits become ints, runs of letters stay
\* strings, dots are dropped
parse_from(s, i) ==
    IF i > Len(s) THEN <<>>
    ELSE IF s[i] \in DigitChars
         THEN LET j == RunEnd(s, i, DigitChars)
              IN  <<IntComp(IntOf(SubSeq(s, i, j)))>> \o parse_from(s, j + 1)
    ELSE IF s[i] \in LetterChars
         THEN LET j == RunEnd(s, i, LetterChars)
              IN  <<StrComp(SubSeq(s, i, j))>> \o parse_from(s, j + 1)
    ELSE parse_from(s, i + 1)

LooseVersion(s) == parse_from(s, 1)

\* Python's str < str on runs of letters
StrLess(x, y) ==
    LET d == {i \in 1..Len(x) : i <= Len(y) /\ x[i] # y[i]}
    IN  IF d = {} THEN Len(x) < Len(y)
        ELSE LetterOrd(x[Min(d)]) < LetterOrd(y[Min(d)])

\* LooseVersion._cmp: Python's list comparison of the component lists; an int
\* against a str at the first differing place raises TypeError
LooseCmp(a, b) ==
    IF a = b THEN "eq"
    ELSE LET d == {i \in 1..Len(a) : i <= Len(b) /\ a[i] # b[i]}
         IN  IF d = {} THEN (IF Len(a) < Len(b) THEN "lt" ELSE "gt")
             ELSE LET x == a[Min(d)]
                      y == b[Min(d)]
                  IN  IF x.int # y.int THEN "TypeError"
                      ELSE IF x.int THEN (IF x.n < y.n THEN "lt" ELSE "gt")
                      ELSE (IF StrLess(x.s, y.s) THEN "lt" ELSE "gt")

\* LooseVersion(v) < LooseVersion(w): "lt" is True, "eq" and "gt" are False
version_lt(v, w) == LooseCmp(LooseVersion(v), LooseVersion(w))

----------------------------------------------------------------------------
(* URLs: a host, the path's segments and whether a slash ends the text *)

Url(host, path, slash) == [host |-> host, path |-> path, slash |-> slash]

NoUrl == Url("", <<>>, FALSE)

\* str.rstrip('/')
rstrip_slash(u) == [u EXCEPT !.slash = FALSE]

\* urljoin(base, '/wp-json/'): an absolute path replaces the base's path
urljoin_absolute(base, segments) == Url(base.host, segments, TRUE)

\* urljoin(base, 'file') where base ends with a slash: the file is appended
urljoin_relative(base, segments) == Url(base.host, base.path \o segments, FALSE)

\* start_scan keeps the scheme and the host only
InitialTargets == {Url("site.example", <<>>, FALSE)}

\* where the root fetch may end after redirects
FinalUrls ==
    {Url("site.example", <<>>, TRUE),
     Url("www.site.example", <<>>, TRUE),
     Url("site.example", <<"blog">>, TRUE)}

\* self.target_url after is_wordpress
ScanTargets == InitialTargets \cup {rstrip_slash(u) : u \in FinalUrls}

----------------------------------------------------------------------------
(* Pages: a page is a sequence of fragments, each a piece of text that     *)
(* matters to a pattern of the scanner.                                    *)

TextTok == [kind |-> "text", name |-> "", content |-> "", ver |-> <<>>]
\* the text /wp-content/ or /wp-includes/
PathTok(p) == [kind |-> "path", name |-> p, content |-> "", ver |-> <<>>]
\* <meta name="N" content="P V">
MetaTok(n, p, v) == [kind |-> "meta", name |-> n, content |-> p, ver |-> v]
\* the text /wp-content/plugins/<slug>/
PluginTok(slug) == [kind |-> "plugin", name |-> slug, content |-> "", ver |-> <<>>]

V_6_2 == <<"6", ".", "2">>
V_5_0 == <<"5", ".", "0">>
V_6_2_b == <<"6", ".", "2", "b">>

HtmlTokens ==
    {TextTok, PathTok("/wp-content/"), PathTok("/wp-includes/"),
     MetaTok("generator", "WordPress", V_6_2),
     MetaTok("GENERATOR", "wordpress", V_5_0),
     MetaTok("generator", "WordPress", V_6_2_b),
     MetaTok("generator", "Joomla", V_5_0),
     PluginTok("akismet")}

Pages == SeqsUpTo(HtmlTokens, MaxHtmlLen)

\* re.IGNORECASE on the words of the model
Lower(w) ==
    CASE w = "GENERATOR" -> "generator"
      [] w = "WordPress" -> "wordpress"
      [] w = "WORDPRESS" -> "wordpress"
      [] w = "Stable tag" -> "stable tag"
      [] w = "STABLE TAG" -> "stable tag"
      [] OTHER -> w

\* the longest prefix of s matching [0-9.]*
numeric_prefix(s) ==
    LET n == Min({i \in 0..Len(s) : i = Len(s) \/ s[i + 1] \notin DigitChars \cup {"."}})
    IN  SubSeq(s, 1, n)

----------------------------------------------------------------------------
(* is_wordpress *)

SIG_PATHS == "wp-content/wp-includes paths"
SIG_META == "meta generator tag"
SIG_REST == "REST API endpoint"

\* line 33: '/wp-content/' in html or '/wp-includes/' in html
has_wp_paths(html) ==
    \E i \in 1..Len(html) :
        \/ html[i].kind = "path" /\ html[i].name \in {"/wp-content/", "/wp-includes/"}
        \/ html[i].kind = "plugin"

\* line 36: the fragments <meta name="generator" content="WordPress ([0-9.]+)">
\* matches, ignoring case
generator_matches(html) ==
    {i \in 1..Len(html) :
        /\ html[i].kind = "meta"
        /\ Lower(html[i].name) = "generator"
        /\ Lower(html[i].content) = "wordpress"
        /\ html[i].ver # <<>>
        /\ numeric_prefix(html[i].ver) = html[i].ver}

\* lines 22-28
wp_initial(url) ==
    [is_wordpress |-> FALSE, confidence |-> 0, detected_by |-> <<>>,
     wp_version |-> NoneVal, url |-> url, error |-> NoneVal]

\* lines 33-35
signal_paths(ind, html) ==
    IF has_wp_paths(html)
    THEN [ind EXCEPT !.detected_by = Append(@, SIG_PATHS), !.confidence = @ + 30]
    ELSE ind

\* a generator tag that counts for 30
signal_meta_weight_30(ind, html) ==
    IF generator_matches(html) # {}
    THEN [ind EXCEPT !.detected_by = Append(@, SIG_META),
                     !.wp_version = html[Min(generator_matches(html))].ver,
                     !.confidence = @ + 30]
    ELSE ind

\* a generator tag that counts once for each of its occurrences in the body
signal_meta_per_occurrence(ind, html) ==
    IF generator_matches(html) # {}
    THEN [ind EXCEPT !.detected_by = Append(@, SIG_META),
                     !.wp_version = html[Min(generator_matches(html))].ver,
                     !.confidence = @ + 40 * Cardinality(generator_matches(html))]
    ELSE ind

\* lines 36-40
signal_meta(ind, html) ==
    IF generator_matches(html) # {}
    THEN [ind EXCEPT !.detected_by = Append(@, SIG_META),
                     !.wp_version = html[Min(generator_matches(html))].ver,
                     !.confidence = @ + 40]
    ELSE ind

\* lines 43-48: a raised request is swallowed
signal_rest(ind, resp) ==
    IF resp.kind = "status" /\ resp.code = 200 /\ resp.namespaces
    THEN [ind EXCEPT !.detected_by = Append(@, SIG_REST), !.confidence = @ + 30]
    ELSE ind

\* a failure that leaves no trace in the result
root_fetch_failed_silently(ind, failure) == ind

\* lines 51-52: indicators['error'] = str(e)
root_fetch_failed(ind, failure) == [ind EXCEPT !.error = <<failure>>]

\* a threshold that leaves the weakest single signal out
decide_strictly_above(ind) ==
    IF ind.confidence > 30 THEN [ind EXCEPT !.is_wordpress = TRUE] ELSE ind

\* lines 49-50
decide(ind) ==
    IF ind.confidence >= 30 THEN [ind EXCEPT !.is_wordpress = TRUE] ELSE ind

\* The answer to the root GET: a network failure, or a response (its status
\* is never read) with its final URL and its body.
RootAnswers ==
    {[kind |-> k, url |-> NoUrl, html |-> <<>>] : k \in NetworkFailures}
    \cup {[kind |-> "response", url |-> u, html |-> h] : u \in FinalUrls, h \in Pages}

\* The answer to the /wp-json/ GET.
RestAnswers ==
    {[kind |-> k, code |-> 0, namespaces |-> FALSE] : k \in NetworkFailures}
    \cup {[kind |-> "status", code |-> c, namespaces |-> n] :
            c \in {200, 404}, n \in BOOLEAN}

WpIdle ==
    /\ wp_pc = "idle"
    /\ indicators = NoResult
    /\ root_response = NoAnswer
    /\ rest_response = NoAnswer
    /\ wp_requests = <<>>

WpStart ==
    /\ wp_pc = "root"
    /\ indicators = NoResult
    /\ root_response = NoAnswer
    /\ rest_response = NoAnswer
    /\ wp_requests = <<>>

\* lines 21-40 and 51-53: the root GET and what follows its answer
WpFetchRootFrom(answers) ==
    /\ wp_pc = "root"
    /\ \E resp \in answers :
        /\ root_response' = resp
        /\ wp_requests' = Append(wp_requests, target_url)
        /\ IF resp.kind \in NetworkFailures
           THEN /\ indicators' = root_fetch_failed(wp_initial(target_url), resp.kind)
                /\ target_url' = target_url
                /\ wp_pc' = "done"
           ELSE /\ indicators' =
                      signal_meta(signal_paths(wp_initial(target_url), resp.html), resp.html)
                /\ target_url' = rstrip_slash(resp.url)
                /\ wp_pc' = "rest"
    /\ UNCHANGED <<rest_response>>

\* the root GET with any answer of the model
WpFetchRoot == WpFetchRootFrom(RootAnswers)

\* lines 41-53: the /wp-json/ GET and what follows its answer
WpProbeRestFrom(answers) ==
    /\ wp_pc = "rest"
    /\ \E resp \in answers :
        /\ rest_response' = resp
        /\ wp_requests' = Append(wp_requests, urljoin_absolute(target_url, <<"wp-json">>))
        /\ indicators' = decide(signal_rest(indicators, resp))
        /\ wp_pc' = "done"
    /\ UNCHANGED <<target_url, root_response>>

\* the /wp-json/ GET with any answer of the model
WpProbeRest == WpProbeRestFrom(RestAnswers)

----------------------------------------------------------------------------
(* check_plugin *)

README_TXT == <<"readme.txt">>
ASSET_FILE == <<"asset file">>

\* A readme.txt is a sequence of header lines "<key>:<value>".
ReadmeKeys == {"Stable tag", "STABLE TAG", "Tested up to"}
ReadmeValues == {V_5_4_2, <<" ", "1", ".", "0">>, <<"1", ".", "0", "b">>, <<"a">>, <<>>}
ReadmeLines == {[key |-> k, value |-> v] : k \in ReadmeKeys, v \in ReadmeValues}
Readmes == SeqsUpTo(ReadmeLines, MaxReadmeLen)

\* \s* : the value without its leading spaces
lstrip_spaces(s) ==
    LET n == Min({i \in 0..Len(s) : i = Len(s) \/ s[i + 1] # " "})
    IN  SubSeq(s, n + 1, Len(s))

\* the lines the pattern of line 71 matches (Stable tag:\s*([0-9.]+), ignoring case)
stable_tag_matches(text) ==
    {i \in 1..Len(text) :
        /\ Lower(text[i].key) = "stable tag"
        /\ numeric_prefix(lstrip_spaces(text[i].value)) # <<>>}

\* a search that takes the case of 'Stable tag' literally
readme_version_case_sensitive(text) ==
    LET m == {i \in stable_tag_matches(text) : text[i].key = "Stable tag"}
    IN  IF m = {} THEN NoneVal
        ELSE numeric_prefix(lstrip_spaces(text[Min(m)].value))

\* lines 71-73: group 1 of the first match, or None
readme_version(text) ==
    IF stable_tag_matches(text) = {} THEN NoneVal
    ELSE numeric_prefix(lstrip_spaces(text[Min(stable_tag_matches(text))].value))

\* a handler that catches timeouts only
caught_timeouts_only(exc) == exc = "Timeout"

\* lines 75 and 84: except requests.RequestException
caught_by_check_plugin(exc) == exc \in NetworkFailures

\* lines 56-62
cp_initial(slug) ==
    [plugin_slug |-> slug, is_installed |-> FALSE, version |-> NoneVal,
     detected_by |-> NoneVal, plugin_url |-> NoUrl]

\* the path segments a slug's text gives once it stands in a URL: the text is
\* put in as it is (lines 63, 78), so each '/' of the slug ends a segment
slug_segments(slug) ==
    IF slug = "foo/bar" THEN <<"foo", "bar">> ELSE <<slug>>

\* the segments of the text <slug><suffix>
slug_file_segments(slug, suffix) ==
    LET segs == slug_segments(slug)
    IN  SubSeq(segs, 1, Len(segs) - 1) \o <<segs[Len(segs)] \o suffix>>

\* line 63
plugin_base_url(target, slug) ==
    Url(target.host, target.path \o <<"wp-content", "plugins">> \o slug_segments(slug), TRUE)

\* line 64
readme_url(target, slug) ==
    urljoin_relative(plugin_base_url(target, slug), <<"readme.txt">>)

\* line 78
css_url(target, slug) ==
    urljoin_relative(plugin_base_url(target, slug),
                     <<"assets", "css">> \o slug_file_segments(slug, ".css"))

\* lines 67-74: the result after a readme.txt answer of 200
readme_found(result, target, resp) ==
    [result EXCEPT !.is_installed = TRUE, !.detected_by = README_TXT,
                   !.plugin_url = readme_url(target, result.plugin_slug),
                   !.version = readme_version(resp.text)]

\* lines 80-83: the result after an asset answer of 200
asset_found(result, target) ==
    [result EXCEPT !.is_installed = TRUE, !.detected_by = ASSET_FILE,
                   !.plugin_url = css_url(target, result.plugin_slug)]

ReadmeAnswers ==
    {[kind |-> k, code |-> 0, text |-> <<>>] : k \in NetworkFailures}
    \cup {[kind |-> "status", code |-> c, text |-> <<>>] : c \in {403, 404}}
    \cup {[kind |-> "status", code |-> 200, text |-> t] : t \in Readmes}

AssetAnswers ==
    {[kind |-> k, code |-> 0] : k \in NetworkFailures}
    \cup {[kind |-> "status", code |-> c] : c \in {200, 404}}

\* the slugs check_plugin is called with; the last holds a path separator
ProbeSlugs == {"contact-form-7", "akismet", "foo/bar"}

CpIdle ==
    /\ cp_pc = "idle"
    /\ cp_slug = ""
    /\ cp_result = NoResult
    /\ readme_response = NoAnswer
    /\ file_response = NoAnswer
    /\ cp_requests = <<>>

CpStart ==
    /\ cp_pc = "readme"
    /\ cp_slug \in ProbeSlugs
    /\ cp_result = NoResult
    /\ readme_response = NoAnswer
    /\ file_response = NoAnswer
    /\ cp_requests = <<>>

\* lines 65-76: the state of check_plugin after the readme.txt answer; next
\* is "done" (return result), "asset" (go on) or "raised"
after_readme(result, target, resp) ==
    IF resp.kind \in NetworkFailures
    THEN [result |-> result,
          next |-> IF caught_by_check_plugin(resp.kind) THEN "asset" ELSE "raised"]
    ELSE IF resp.code = 200
         THEN [result |-> readme_found(result, target, resp), next |-> "done"]
         ELSE [result |-> result, next |-> "asset"]

\* lines 77-86: the state of check_plugin after the asset answer
after_asset(result, target, resp) ==
    IF resp.kind \in NetworkFailures
    THEN [result |-> result,
          next |-> IF caught_by_check_plugin(resp.kind) THEN "done" ELSE "raised"]
    ELSE IF resp.code = 200
         THEN [result |-> asset_found(result, target), next |-> "done"]
         ELSE [result |-> result, next |-> "done"]

\* lines 55-86: a whole call, given the answers its requests get (the asset
\* answer is read only when the HEAD is sent)
check_plugin(target, slug, readme_resp, asset_resp) ==
    LET r == after_readme(cp_initial(slug), target, readme_resp)
    IN  IF r.next = "asset" THEN after_asset(r.result, target, asset_resp) ELSE r

\* lines 55-76: the readme.txt GET and what follows its answer
CpGetReadme ==
    /\ cp_pc = "readme"
    /\ \E resp \in ReadmeAnswers :
        LET r == after_readme(cp_initial(cp_slug), target_url, resp)
        IN  /\ readme_response' = resp
            /\ cp_requests' = Append(cp_requests,
                                     [method |-> "GET", url |-> readme_url(target_url, cp_slug)])
            /\ cp_result' = r.result
            /\ cp_pc' = r.next
    /\ UNCHANGED <<cp_slug, file_response>>

\* lines 77-86: the asset HEAD and what follows its answer
CpHeadAsset ==
    /\ cp_pc = "asset"
    /\ \E resp \in AssetAnswers :
        LET r == after_asset(cp_result, target_url, resp)
        IN  /\ file_response' = resp
            /\ cp_requests' = Append(cp_requests,
                                     [method |-> "HEAD", url |-> css_url(target_url, cp_slug)])
            /\ cp_result' = r.result
            /\ cp_pc' = r.next
    /\ UNCHANGED <<cp_slug, readme_response>>

----------------------------------------------------------------------------
(* load_common_plugins and enumerate_plugins *)

METHOD_HTML == "HTML parsing"
METHOD_COMMON == "common plugin checking (concurrent)"

\* line 245
max_workers == 20

\* lines 182-185
default_list ==
    <<"akismet", "contact-form-7", "wordpress-seo", "jetpack",
      "wordfence", "elementor", "woocommerce">>

\* The lines of plugin_list.txt: slugs, a blank line, a slug with spaces around.
FileLines == {"akismet", "hello-dolly", "", " akismet "}

\* str.strip() on the lines of the model
strip(line) == IF line = " akismet " THEN "akismet" ELSE line

\* plugin_list.txt: missing, unreadable, or its lines
PluginFiles ==
    {[kind |-> k, lines |-> <<>>] : k \in {"missing", "unreadable"}}
    \cup {[kind |-> "file", lines |-> ls] : ls \in SeqsUpTo(FileLines, MaxListLen)}

\* -1 is "Full List"
ScanLevels == {-1, 1, 2}

RECURSIVE stripped_lines(_)
\* line 193: [line.strip() for line in f if line.strip()]
stripped_lines(lines) ==
    IF lines = <<>> THEN <<>>
    ELSE IF strip(Head(lines)) = "" THEN stripped_lines(Tail(lines))
    ELSE <<strip(Head(lines))>> \o stripped_lines(Tail(lines))

\* plugins[:n] for n >= 0
slice_to(plugins, n) == SubSeq(plugins, 1, IF n < Len(plugins) THEN n ELSE Len(plugins))

\* lines 179-207 (the scan levels of the model are -1 and positive)
load_common_plugins(file, scan_level) ==
    IF file.kind \in {"missing", "unreadable"} THEN default_list
    ELSE IF scan_level = -1 THEN stripped_lines(file.lines)
    ELSE slice_to(stripped_lines(file.lines), scan_level)

\* lines 224-225: set(re.findall(r'/wp-content/plugins/([^/\'"]+)', html))
slugs_from_html(html) == {html[i].name : i \in {j \in 1..Len(html) : html[j].kind = "plugin"}}

RECURSIVE not_found(_, _)
\* a filter that lets every slug through
not_found_unfiltered(common, found) == common

\* line 243: [slug for slug in common_plugins if slug not in found_slugs]
not_found(common, found) ==
    IF common = <<>> THEN <<>>
    ELSE IF Head(common) \in found THEN not_found(Tail(common), found)
    ELSE <<Head(common)>> \o not_found(Tail(common), found)

\* lines 214-218
en_initial == [plugins |-> <<>>, total_found |-> 0, detection_methods |-> <<>>]

\* The pages the root GET of enumerate_plugins may get, and a network failure.
EnumPages ==
    {<<>>, <<PluginTok("akismet")>>,
     <<PluginTok("akismet"), TextTok, PluginTok("akismet")>>,
     <<PluginTok("hello-dolly"), PluginTok("akismet")>>}

EnumRootAnswers ==
    {[kind |-> k, html |-> <<>>] : k \in NetworkFailures}
    \cup {[kind |-> "response", html |-> h] : h \in EnumPages}

\* The answers the requests of one check_plugin call get during an enumeration.
README_5_4_2 == <<[key |-> "Stable tag", value |-> V_5_4_2]>>

EnumProbeAnswers ==
    {[readme |-> [kind |-> "status", code |-> 200, text |-> README_5_4_2],
      asset |-> [kind |-> "status", code |-> 404]],
     [readme |-> [kind |-> "status", code |-> 404, text |-> <<>>],
      asset |-> [kind |-> "status", code |-> 404]]}

\* an entry of en_probes: found is "yes" or "no" for a call that has returned
\* when it is logged, "pending" for a call a worker has just taken
Probe(slug, stage, found) == [slug |-> slug, stage |-> stage, found |-> found]

Future(slug) == [slug |-> slug, state |-> "queued", result |-> NoResult]

Running(fs) == {i \in 1..Len(fs) : fs[i].state = "running"}

EnIdle ==
    /\ en_pc = "idle"
    /\ en_scan_level = 0
    /\ plugin_file = NoAnswer
    /\ en_root = NoAnswer
    /\ en_html_todo = {}
    /\ found_slugs = {}
    /\ en_result = NoResult
    /\ common_plugins = <<>>
    /\ futures = <<>>
    /\ en_next = 1
    /\ en_probes = <<>>

EnStart ==
    /\ en_pc = "root"
    /\ en_scan_level \in ScanLevels
    /\ plugin_file \in PluginFiles
    /\ en_root = NoAnswer
    /\ en_html_todo = {}
    /\ found_slugs = {}
    /\ en_result = NoResult
    /\ common_plugins = <<>>
    /\ futures = <<>>
    /\ en_next = 1
    /\ en_probes = <<>>

\* a handler that lets every failure of the root GET through
caught_by_nothing(exc) == FALSE

\* lines 235-236: a bare except, which catches every exception
caught_by_enumerate(exc) == TRUE

\* lines 214-228 and 235-236: the root GET and the scraping of its body
EnFetchRootFrom(answers) ==
    /\ en_pc = "root"
    /\ \E resp \in answers :
        /\ en_root' = [kind |-> resp.kind]
        /\ IF resp.kind \in NetworkFailures
           THEN /\ en_html_todo' = {}
                /\ en_result' = en_initial
           ELSE /\ en_html_todo' = slugs_from_html(resp.html)
                /\ en_result' =
                      IF slugs_from_html(resp.html) # {}
                      THEN [en_initial EXCEPT !.detection_methods = Append(@, METHOD_HTML)]
                      ELSE en_initial
        /\ en_pc' = IF resp.kind \in NetworkFailures /\ ~caught_by_enumerate(resp.kind)
                    THEN "raised" ELSE "html"
    /\ UNCHANGED <<en_scan_level, plugin_file, found_slugs, common_plugins, futures,
                   en_next, en_probes>>

\* the root GET of enumerate_plugins with any answer of the model
EnFetchRoot == EnFetchRootFrom(EnumRootAnswers)

\* lines 229-234: one turn of the loop over slugs_from_html (a set: any order)
EnHtmlProbe ==
    /\ en_pc = "html"
    /\ \E slug \in en_html_todo, ans \in EnumProbeAnswers :
        LET plugin_info == check_plugin(target_url, slug, ans.readme, ans.asset).result
        IN  /\ en_html_todo' = en_html_todo \ {slug}
            /\ IF slug \notin found_slugs
               THEN /\ en_probes' = Append(en_probes,
                                            Probe(slug, "html",
                                                  IF plugin_info.is_installed
                                                  THEN "yes" ELSE "no"))
                    /\ IF plugin_info.is_installed
                       THEN /\ en_result' = [en_result EXCEPT !.plugins = Append(@, plugin_info)]
                            /\ found_slugs' = found_slugs \cup {slug}
                       ELSE UNCHANGED <<en_result, found_slugs>>
               ELSE UNCHANGED <<en_probes, en_result, found_slugs>>
    /\ UNCHANGED <<en_pc, en_scan_level, plugin_file, en_root, common_plugins, futures, en_next>>

\* lines 239-246: the list is loaded and filtered, and every probe is submitted
EnSubmit ==
    /\ en_pc = "html"
    /\ en_html_todo = {}
    /\ common_plugins' = load_common_plugins(plugin_file, en_scan_level)
    /\ en_result' = [en_result EXCEPT !.detection_methods = Append(@, METHOD_COMMON)]
    /\ futures' = LET plugins_to_check == not_found(common_plugins', found_slugs)
                  IN  [i \in 1..Len(plugins_to_check) |-> Future(plugins_to_check[i])]
    /\ en_pc' = "pool"
    /\ UNCHANGED <<en_scan_level, plugin_file, en_root, en_html_todo, found_slugs,
                   en_next, en_probes>>

\* ThreadPoolExecutor: a free worker takes the oldest queued call of check_plugin
EnWorkerStart ==
    /\ en_pc = "pool"
    /\ Cardinality(Running(futures)) < max_workers
    /\ \E i \in 1..Len(futures) :
        /\ futures[i].state = "queued"
        /\ \A j \in 1..(i - 1) : futures[j].state # "queued"
        /\ futures' = [futures EXCEPT ![i].state = "running"]
        /\ en_probes' = Append(en_probes, Probe(futures[i].slug, "list", "pending"))
    /\ UNCHANGED <<en_pc, en_scan_level, plugin_file, en_root, en_html_todo, found_slugs,
                   en_result, common_plugins, en_next>>

\* a worker's call of check_plugin returns
EnWorkerFinish ==
    /\ en_pc = "pool"
    /\ \E i \in Running(futures), ans \in EnumProbeAnswers :
        futures' = [futures EXCEPT
                       ![i].state = "done",
                       ![i].result = check_plugin(target_url, futures[i].slug,
                                                  ans.readme, ans.asset).result]
    /\ UNCHANGED <<en_pc, en_scan_level, plugin_file, en_root, en_html_todo, found_slugs,
                   en_result, common_plugins, en_next, en_probes>>

\* an append that replaces the list: the records appended before are lost
append_if_installed_losing_earlier(plugins, plugin_info) ==
    IF plugin_info.is_installed THEN <<plugin_info>> ELSE plugins

\* lines 249-250: if plugin_info['is_installed']: found_plugins['plugins'].append(plugin_info)
append_if_installed(plugins, plugin_info) ==
    IF plugin_info.is_installed THEN Append(plugins, plugin_info) ELSE plugins

\* lines 247-251: one turn of the loop over futures, in submission order
EnCollect ==
    /\ en_pc = "pool"
    /\ en_next <= Len(futures)
    /\ futures[en_next].state = "done"
    /\ LET plugin_info == futures[en_next].result
       IN  /\ en_result' = [en_result EXCEPT
                              !.plugins = append_if_installed(@, plugin_info)]
           /\ found_slugs' = IF plugin_info.is_installed
                             THEN found_slugs \cup {plugin_info.plugin_slug}
                             ELSE found_slugs
    /\ en_next' = en_next + 1
    /\ UNCHANGED <<en_pc, en_scan_level, plugin_file, en_root, en_html_todo, common_plugins,
                   futures, en_probes>>

\* lines 253-254
EnReturn ==
    /\ en_pc = "pool"
    /\ en_next > Len(futures)
    /\ en_result' = [en_result EXCEPT !.total_found = Len(en_result.plugins)]
    /\ en_pc' = "done"
    /\ UNCHANGED <<en_scan_level, plugin_file, en_root, en_html_todo, found_slugs,
                   common_plugins, futures, en_next, en_probes>>

----------------------------------------------------------------------------
(* Inputs of get_plugin_cves *)

VerChars == {"0", "1", "."}

ExampleVersions == {V_1_0, V_1_0_0, V_1_9, V_1_10, V_1_5, V_2_0, V_2_5, V_5_4_2, V_5_5_0}

\* what check_plugin's pattern ([0-9.]+) can capture
NumericTexts == (SeqsUpTo(VerChars, MaxVerLen) \ {<<>>}) \cup ExampleVersions

InstalledVersions == {NoneVal} \cup NumericTexts

\* what an API may send as a version
ApiVersions == {NoneVal, <<>>} \cup NumericTexts \cup {V_1_a, V_a}

PaidVersions == {NoneVal, V_1_0, V_2_0, V_1_a}

Tokens == {NoneVal, <<>>, <<"t", "o", "k">>}

CveSlugs == {"contact-form-7"}

\* The registry's answer: the request raises; a status other than 200; 200
\* with a body that is not a JSON object; 200 with a JSON object.
RegistryAnswers ==
    {[kind |-> k, version |-> NoneVal] : k \in {"raise", "status", "badjson"}}
    \cup {[kind |-> "ok", version |-> v] : v \in ApiVersions}

Vulns ==
    {[title |-> "open", cve |-> "CVE-1", fixed_in |-> NoneVal],
     [title |-> "fixed-2.0", cve |-> "CVE-2", fixed_in |-> V_2_0],
     [title |-> "fixed-1.0.0", cve |-> NoneVal, fixed_in |-> V_1_0_0],
     [title |-> "fixed-1.a", cve |-> "CVE-4", fixed_in |-> V_1_a]}

\* The paid API's answer: as above; a JSON object may lack the slug's entry.
PaidAnswers ==
    {[kind |-> k, has_entry |-> FALSE, latest_version |-> NoneVal, vulnerabilities |-> <<>>] :
        k \in {"raise", "status", "badjson"}}
    \cup {[kind |-> "ok", has_entry |-> FALSE, latest_version |-> NoneVal, vulnerabilities |-> <<>>]}
    \cup {[kind |-> "ok", has_entry |-> TRUE, latest_version |-> v, vulnerabilities |-> vs] :
            v \in PaidVersions, vs \in SeqsUpTo(Vulns, MaxVulns)}

----------------------------------------------------------------------------
(* get_plugin_cves *)

SRC_FREE == "WordPress.org API"
SRC_PAID == "WPScan API (Outdated)"
SRC_UP_TO_DATE == "WordPress.org API (Up to date)"
NOT_FIXED == <<"Not fixed">>
WPSCAN_ERROR == <<"WPScan API error">>

\* lines 93-100 and 104
cves_initial(slug, version) ==
    [plugin_slug |-> slug, version |-> version, vulnerabilities |-> <<>>,
     is_outdated |-> FALSE, latest_version |-> NoneVal, source |-> SRC_FREE,
     error |-> NoneVal]

\* a failed registry call assumes no outdated plugin (the bug tier 1 guards against)
tier1_failure_not_conservative(result) == result

\* lines 114-119: any failure of the registry call marks the plugin outdated
tier1_failure(result) == [result EXCEPT !.is_outdated = TRUE]

\* lines 105-120
tier1(result, version, resp) ==
    IF resp.kind = "ok"
    THEN LET r == [result EXCEPT !.latest_version = resp.version]
         IN  IF Truthy(version) /\ Truthy(resp.version)
             THEN LET c == version_lt(version, resp.version)
                  IN  IF c = "TypeError" THEN tier1_failure(r)
                      ELSE [r EXCEPT !.is_outdated = (c = "lt")]
             ELSE r
    ELSE tier1_failure(result)

\* the gate without the credential test
tier2_gate_ignores_token(result, version, token) ==
    result.is_outdated \/ (~Truthy(result.latest_version) /\ Truthy(version))

\* lines 124-126
tier2_gate(result, version, token) ==
    /\ result.is_outdated \/ (~Truthy(result.latest_version) /\ Truthy(version))
    /\ Truthy(token)

Finding(vuln, fixed) == [title |-> vuln.title, cve |-> vuln.cve, fixed_in |-> fixed]

RECURSIVE relevant_vulns(_, _)
\* lines 143-168
relevant_vulns(version, vulns) ==
    IF vulns = <<>> THEN <<>>
    ELSE LET vuln == Head(vulns)
             rest == relevant_vulns(version, Tail(vulns))
         IN  IF ~Truthy(vuln.fixed_in)
             THEN <<Finding(vuln, NOT_FIXED)>> \o rest
             ELSE IF Truthy(version)
                  THEN IF version_lt(version, vuln.fixed_in) \in {"lt", "TypeError"}
                       THEN <<Finding(vuln, vuln.fixed_in)>> \o rest
                       ELSE rest
                  ELSE rest

\* lines 127-170
tier2(result, version, resp) ==
    LET r0 == [result EXCEPT !.source = SRC_PAID]
    IN  IF resp.kind \in {"raise", "badjson"}
        THEN [r0 EXCEPT !.error = WPSCAN_ERROR]
        ELSE IF resp.kind = "status" THEN r0
        ELSE IF ~resp.has_entry THEN r0
        ELSE IF Truthy(resp.latest_version)
             THEN LET r1 == [r0 EXCEPT !.latest_version = resp.latest_version]
                  IN  IF Truthy(version)
                      THEN LET c == version_lt(version, resp.latest_version)
                           IN  IF c = "TypeError"
                               THEN [r1 EXCEPT !.error = WPSCAN_ERROR]
                               ELSE [r1 EXCEPT !.is_outdated = (c = "lt"),
                                               !.vulnerabilities =
                                                   relevant_vulns(version, resp.vulnerabilities)]
                      ELSE [r1 EXCEPT !.vulnerabilities =
                                          relevant_vulns(version, resp.vulnerabilities)]
             ELSE [r0 EXCEPT !.vulnerabilities =
                                 relevant_vulns(version, resp.vulnerabilities)]

\* lines 173-174
final_label(result, token) ==
    IF ~result.is_outdated /\ Truthy(token)
    THEN [result EXCEPT !.source = SRC_UP_TO_DATE]
    ELSE result

CvIdle ==
    /\ cv_pc = "idle"
    /\ cv_slug = ""
    /\ cv_version = NoneVal
    /\ api_token = NoneVal
    /\ wp_response = NoAnswer
    /\ api_response = NoAnswer
    /\ cv_tier1 = NoResult
    /\ cv_requests = <<>>
    /\ cv_result = NoResult

CvStart ==
    /\ cv_pc = "tier1"
    /\ cv_slug \in CveSlugs
    /\ cv_version \in InstalledVersions
    /\ api_token \in Tokens
    /\ wp_response = NoAnswer
    /\ api_response = NoAnswer
    /\ cv_tier1 = NoResult
    /\ cv_requests = <<>>
    /\ cv_result = NoResult

\* lines 88-126 (and 173-176 when tier 2 is skipped): the registry request
\* and what follows its answer
CvesTier1 ==
    /\ cv_pc = "tier1"
    /\ \E resp \in RegistryAnswers :
        LET r == tier1(cves_initial(cv_slug, cv_version), cv_version, resp)
        IN  /\ wp_response' = resp
            /\ cv_tier1' = [is_outdated |-> r.is_outdated, latest_version |-> r.latest_version]
            /\ cv_requests' = Append(cv_requests, "registry")
            /\ IF tier2_gate(r, cv_version, api_token)
               THEN /\ cv_pc' = "tier2"
                    /\ cv_result' = r
               ELSE /\ cv_pc' = "done"
                    /\ cv_result' = final_label(r, api_token)
    /\ UNCHANGED <<cv_slug, cv_version, api_token, api_response>>

\* lines 127-176: the paid API's request and what follows its answer
CvesTier2 ==
    /\ cv_pc = "tier2"
    /\ \E resp \in PaidAnswers :
        /\ api_response' = resp
        /\ cv_requests' = Append(cv_requests, "paid")
        /\ cv_result' = final_label(tier2(cv_result, cv_version, resp), api_token)
        /\ cv_pc' = "done"
    /\ UNCHANGED <<cv_slug, cv_version, api_token, wp_response, cv_tier1>>

----------------------------------------------------------------------------
(* start_scan (app.py): is_wordpress, then enumerate_plugins, then one call *)
(* of get_plugin_cves per discovered plugin in a pool of 10 workers         *)

\* app.py line 53
cve_max_workers == 10

\* lines 88-176 of scanner.py: a whole call, given the answers its requests
\* get (the paid API's answer is read only when tier 2 runs)
get_plugin_cves(slug, version, token, wp_resp, paid_resp) ==
    LET r == tier1(cves_initial(slug, version), version, wp_resp)
    IN  IF tier2_gate(r, version, token)
        THEN final_label(tier2(r, version, paid_resp), token)
        ELSE final_label(r, token)

\* the answers of a scan: a narrower choice than that of the single operations
ScanRootAnswers ==
    {[kind |-> "Timeout", url |-> NoUrl, html |-> <<>>]}
    \cup {[kind |-> "response", url |-> u, html |-> h] :
            u \in FinalUrls, h \in {<<PathTok("/wp-content/")>>, <<TextTok>>}}

ScanRestAnswers ==
    {[kind |-> "Timeout", code |-> 0, namespaces |-> FALSE],
     [kind |-> "status", code |-> 200, namespaces |-> TRUE]}

ScanEnumAnswers ==
    {[kind |-> "ConnectionError", html |-> <<>>],
     [kind |-> "response", html |-> <<PluginTok("hello-dolly"), PluginTok("akismet")>>]}

ScanFiles == {[kind |-> "file", lines |-> <<"contact-form-7", "akismet">>]}

ScanTokens == {<<"t", "o", "k">>}

ScanRegistryAnswers ==
    {[kind |-> "raise", version |-> NoneVal], [kind |-> "ok", version |-> V_5_5_0]}

ScanPaidAnswers ==
    {[kind |-> "raise", has_entry |-> FALSE, latest_version |-> NoneVal,
      vulnerabilities |-> <<>>],
     [kind |-> "ok", has_entry |-> TRUE, latest_version |-> NoneVal,
      vulnerabilities |-> <<[title |-> "open", cve |-> "CVE-1", fixed_in |-> NoneVal]>>]}

\* app.py line 55: executor.submit(scanner.get_plugin_cves, p['plugin_slug'], p.get('version'))
CveFuture(p) ==
    [slug |-> p.plugin_slug, version |-> p.version, state |-> "queued", report |-> NoResult]

ScIdle ==
    /\ sc_pc = "idle"
    /\ cve_futures = <<>>
    /\ cve_next = 1
    /\ cve_results = <<>>
    /\ results = NoResult

\* a report with an error is left out of cve_results
collect_report_without_errors(reports, report) ==
    IF report.error # NoneVal THEN reports ELSE Append(reports, report)

\* app.py line 59: cve_results.append(future.result())
collect_report(reports, report) == Append(reports, report)

\* the pool of get_plugin_cves is opened while candidate probes still run
plugin_data_returned_early == en_pc \in {"pool", "done"}

\* app.py line 48: enumerate_plugins has returned plugin_data
plugin_data_returned == en_pc = "done"

\* app.py line 44: results['wp_check'] = scanner.is_wordpress()
ScDetectRoot ==
    /\ sc_pc = "detect"
    /\ WpFetchRootFrom(ScanRootAnswers)
    /\ UNCHANGED <<cp_vars, en_vars, cv_vars, pool_vars, sc_vars>>

ScDetectRest ==
    /\ sc_pc = "detect"
    /\ WpProbeRestFrom(ScanRestAnswers)
    /\ UNCHANGED <<cp_vars, en_vars, cv_vars, pool_vars, sc_vars>>

\* every site is taken for a WordPress site
detection_ignored(wp_check) == TRUE

\* app.py line 46: if results['wp_check']['is_wordpress']
detection_positive(wp_check) == wp_check.is_wordpress

\* app.py lines 44, 46 and 63: not a WordPress site, the scan returns
ScNotWordpress ==
    /\ sc_pc = "detect"
    /\ wp_pc = "done"
    /\ ~detection_positive(indicators)
    /\ results' = [wp_check |-> indicators]
    /\ sc_pc' = "done"
    /\ UNCHANGED <<target_url, wp_vars, cp_vars, en_vars, cv_vars, pool_vars,
                   cve_futures, cve_next, cve_results>>

\* app.py lines 44-48: enumerate_plugins is called
ScEnumerate ==
    /\ sc_pc = "detect"
    /\ wp_pc = "done"
    /\ detection_positive(indicators)
    /\ results' = [wp_check |-> indicators]
    /\ sc_pc' = "enumerate"
    /\ en_pc' = "root"
    /\ en_scan_level' = -1
    /\ plugin_file' \in ScanFiles
    /\ UNCHANGED <<target_url, wp_vars, cp_vars, cv_vars, pool_vars, cve_futures, cve_next,
                   cve_results, en_root, en_html_todo, found_slugs, en_result,
                   common_plugins, futures, en_next, en_probes>>

\* scanner.py lines 211-254, inside the call of app.py line 48
ScEnFetchRoot ==
    /\ sc_pc = "enumerate"
    /\ EnFetchRootFrom(ScanEnumAnswers)
    /\ UNCHANGED <<target_url, wp_vars, cp_vars, cv_vars, pool_vars, sc_vars>>

ScEnStep(step) ==
    /\ sc_pc = "enumerate"
    /\ step
    /\ UNCHANGED <<target_url, wp_vars, cp_vars, cv_vars, pool_vars, sc_vars>>

\* app.py lines 50-57: one call of get_plugin_cves is submitted per plugin
ScSubmitCves ==
    /\ sc_pc = "enumerate"
    /\ plugin_data_returned
    /\ results' = [wp_check |-> results.wp_check, plugins |-> en_result]
    /\ cve_futures' = [i \in 1..Len(en_result.plugins) |-> CveFuture(en_result.plugins[i])]
    /\ sc_pc' = "resolve"
    /\ UNCHANGED <<target_url, wp_vars, cp_vars, en_vars, cv_vars, pool_vars, cve_next, cve_results>>

\* ThreadPoolExecutor: a free worker takes the oldest queued call
ScCveStart ==
    /\ sc_pc = "resolve"
    /\ Cardinality({i \in 1..Len(cve_futures) : cve_futures[i].state = "running"})
           < cve_max_workers
    /\ \E i \in 1..Len(cve_futures) :
        /\ cve_futures[i].state = "queued"
        /\ \A j \in 1..(i - 1) : cve_futures[j].state # "queued"
        /\ cve_futures' = [cve_futures EXCEPT ![i].state = "running"]
    /\ UNCHANGED <<target_url, wp_vars, cp_vars, en_vars, cv_vars, pool_vars, sc_pc, cve_next, cve_results, results>>

\* a worker's call of get_plugin_cves returns
ScCveFinish ==
    /\ sc_pc = "resolve"
    /\ \E i \in 1..Len(cve_futures), wp_resp \in ScanRegistryAnswers,
          paid_resp \in ScanPaidAnswers :
        /\ cve_futures[i].state = "running"
        /\ cve_futures' = [cve_futures EXCEPT
                              ![i].state = "done",
                              ![i].report = get_plugin_cves(cve_futures[i].slug,
                                                            cve_futures[i].version,
                                                            api_token, wp_resp, paid_resp)]
    /\ UNCHANGED <<target_url, wp_vars, cp_vars, en_vars, cv_vars, pool_vars, sc_pc, cve_next, cve_results, results>>

\* app.py lines 58-59: one turn of the loop over futures, in submission order
ScCollect ==
    /\ sc_pc = "resolve"
    /\ cve_next <= Len(cve_futures)
    /\ cve_futures[cve_next].state = "done"
    /\ cve_results' = collect_report(cve_results, cve_futures[cve_next].report)
    /\ cve_next' = cve_next + 1
    /\ UNCHANGED <<target_url, wp_vars, cp_vars, en_vars, cv_vars, pool_vars, sc_pc, cve_futures, results>>

\* app.py lines 61-63
ScReturn ==
    /\ sc_pc = "resolve"
    /\ cve_next > Len(cve_futures)
    /\ results' = [wp_check |-> results.wp_check, plugins |-> results.plugins,
                   vulnerabilities |-> cve_results]
    /\ sc_pc' = "done"
    /\ UNCHANGED <<target_url, wp_vars, cp_vars, en_vars, cv_vars, pool_vars, cve_futures,
                   cve_next, cve_results>>

----------------------------------------------------------------------------
(* The two ThreadPoolExecutor pools of a scan, by numbers of calls: the     *)
(* pool of check_plugin (scanner.py line 245) and, once it has closed, the  *)
(* pool of get_plugin_cves (app.py line 53).                                *)

\* a pool that starts every submitted call at once
worker_always_free(in_flight, limit) == TRUE

\* ThreadPoolExecutor(max_workers=limit): a queued call is taken only while
\* fewer than limit calls are running
worker_free(in_flight, limit) == in_flight < limit

PoolIdle ==
    /\ pool_pc = "idle"
    /\ probes_queued = 0 /\ probes_in_flight = 0 /\ probes_done = 0 /\ probes_peak = 0
    /\ cves_queued = 0 /\ cves_in_flight = 0 /\ cves_done = 0

\* scanner.py line 246: every candidate probe is submitted at once
PoolStart ==
    /\ pool_pc = "probes"
    /\ probes_queued \in 0..MaxCandidates
    /\ probes_in_flight = 0 /\ probes_done = 0 /\ probes_peak = 0
    /\ cves_queued = 0 /\ cves_in_flight = 0 /\ cves_done = 0

\* a worker of the pool of line 245 takes a queued call of check_plugin
PoolProbeStart ==
    /\ pool_pc = "probes"
    /\ probes_queued > 0
    /\ worker_free(probes_in_flight, max_workers)
    /\ probes_queued' = probes_queued - 1
    /\ probes_in_flight' = probes_in_flight + 1
    /\ probes_peak' = IF probes_in_flight' > probes_peak THEN probes_in_flight'
                      ELSE probes_peak
    /\ UNCHANGED <<pool_pc, probes_done, cves_queued, cves_in_flight, cves_done>>

\* a call of check_plugin returns
PoolProbeFinish ==
    /\ pool_pc = "probes"
    /\ probes_in_flight > 0
    /\ probes_in_flight' = probes_in_flight - 1
    /\ probes_done' = probes_done + 1
    /\ UNCHANGED <<pool_pc, probes_queued, probes_peak, cves_queued, cves_in_flight,
                   cves_done>>

\* scanner.py lines 247-254 and app.py lines 52-57: every probe has returned,
\* and one call of get_plugin_cves is submitted per discovered plugin
PoolSubmitCves ==
    /\ pool_pc = "probes"
    /\ probes_queued = 0 /\ probes_in_flight = 0
    /\ cves_queued' \in 0..MaxPlugins
    /\ pool_pc' = "cves"
    /\ UNCHANGED <<probes_queued, probes_in_flight, probes_done, probes_peak,
                   cves_in_flight, cves_done>>

\* a worker of the pool of app.py line 53 takes a queued call of get_plugin_cves
PoolCveStart ==
    /\ pool_pc = "cves"
    /\ cves_queued > 0
    /\ worker_free(cves_in_flight, cve_max_workers)
    /\ cves_queued' = cves_queued - 1
    /\ cves_in_flight' = cves_in_flight + 1
    /\ UNCHANGED <<pool_pc, probes_queued, probes_in_flight, probes_done, probes_peak,
                   cves_done>>

\* a call of get_plugin_cves returns
PoolCveFinish ==
    /\ pool_pc = "cves"
    /\ cves_in_flight > 0
    /\ cves_in_flight' = cves_in_flight - 1
    /\ cves_done' = cves_done + 1
    /\ UNCHANGED <<pool_pc, probes_queued, probes_in_flight, probes_done, probes_peak,
                   cves_queued>>

\* app.py lines 58-63: every report was collected
PoolReturn ==
    /\ pool_pc = "cves"
    /\ cves_queued = 0 /\ cves_in_flight = 0
    /\ pool_pc' = "done"
    /\ UNCHANGED <<probes_queued, probes_in_flight, probes_done, probes_peak,
                   cves_queued, cves_in_flight, cves_done>>

----------------------------------------------------------------------------
(* Specifications: one per operation of the scanner *)

\* is_wordpress on a fresh scanner
DetectInit == target_url \in InitialTargets /\ WpStart /\ CpIdle /\ EnIdle /\ CvIdle /\ ScIdle /\ PoolIdle
DetectNext ==
    \/ WpFetchRoot /\ UNCHANGED <<cp_vars, en_vars, cv_vars, sc_vars, pool_vars>>
    \/ WpProbeRest /\ UNCHANGED <<cp_vars, en_vars, cv_vars, sc_vars, pool_vars>>
SpecDetect == DetectInit /\ [][DetectNext]_vars

\* check_plugin on a scanner whose target is settled
ProbeInit == target_url \in ScanTargets /\ WpIdle /\ CpStart /\ EnIdle /\ CvIdle /\ ScIdle /\ PoolIdle
ProbeNext ==
    \/ CpGetReadme /\ UNCHANGED <<target_url, wp_vars, en_vars, cv_vars, sc_vars, pool_vars>>
    \/ CpHeadAsset /\ UNCHANGED <<target_url, wp_vars, en_vars, cv_vars, sc_vars, pool_vars>>
SpecProbe == ProbeInit /\ [][ProbeNext]_vars

\* enumerate_plugins on a scanner whose target is settled
EnumInit == target_url \in InitialTargets /\ WpIdle /\ CpIdle /\ EnStart /\ CvIdle /\ ScIdle /\ PoolIdle
EnumNext ==
    \/ EnFetchRoot /\ UNCHANGED <<target_url, wp_vars, cp_vars, cv_vars, sc_vars, pool_vars>>
    \/ EnHtmlProbe /\ UNCHANGED <<target_url, wp_vars, cp_vars, cv_vars, sc_vars, pool_vars>>
    \/ EnSubmit /\ UNCHANGED <<target_url, wp_vars, cp_vars, cv_vars, sc_vars, pool_vars>>
    \/ EnWorkerStart /\ UNCHANGED <<target_url, wp_vars, cp_vars, cv_vars, sc_vars, pool_vars>>
    \/ EnWorkerFinish /\ UNCHANGED <<target_url, wp_vars, cp_vars, cv_vars, sc_vars, pool_vars>>
    \/ EnCollect /\ UNCHANGED <<target_url, wp_vars, cp_vars, cv_vars, sc_vars, pool_vars>>
    \/ EnReturn /\ UNCHANGED <<target_url, wp_vars, cp_vars, cv_vars, sc_vars, pool_vars>>
SpecEnum == EnumInit /\ [][EnumNext]_vars

\* get_plugin_cves
CvesInit == target_url \in InitialTargets /\ WpIdle /\ CpIdle /\ EnIdle /\ CvStart /\ ScIdle /\ PoolIdle
CvesNext ==
    \/ CvesTier1 /\ UNCHANGED <<target_url, wp_vars, cp_vars, en_vars, sc_vars, pool_vars>>
    \/ CvesTier2 /\ UNCHANGED <<target_url, wp_vars, cp_vars, en_vars, sc_vars, pool_vars>>
SpecCves == CvesInit /\ [][CvesNext]_vars

\* start_scan: a whole scan of one target
ScanInit ==
    /\ target_url \in InitialTargets
    /\ WpStart /\ CpIdle /\ EnIdle
    /\ cv_pc = "idle" /\ cv_slug = "" /\ cv_version = NoneVal
    /\ api_token \in ScanTokens
    /\ wp_response = NoAnswer /\ api_response = NoAnswer
    /\ cv_tier1 = NoResult /\ cv_requests = <<>> /\ cv_result = NoResult
    /\ sc_pc = "detect"
    /\ cve_futures = <<>> /\ cve_next = 1 /\ cve_results = <<>>
    /\ results = NoResult
    /\ PoolIdle
ScanNext ==
    \/ ScDetectRoot
    \/ ScDetectRest
    \/ ScNotWordpress
    \/ ScEnumerate
    \/ ScEnFetchRoot
    \/ ScEnStep(EnHtmlProbe)
    \/ ScEnStep(EnSubmit)
    \/ ScEnStep(EnWorkerStart)
    \/ ScEnStep(EnWorkerFinish)
    \/ ScEnStep(EnCollect)
    \/ ScEnStep(EnReturn)
    \/ ScSubmitCves
    \/ ScCveStart
    \/ ScCveFinish
    \/ ScCollect
    \/ ScReturn
SpecScan == ScanInit /\ [][ScanNext]_vars

\* the two pools of a scan, with more calls than workers
PoolsInit ==
    /\ target_url \in InitialTargets
    /\ WpIdle /\ CpIdle /\ EnIdle /\ CvIdle /\ ScIdle /\ PoolStart
PoolsNext ==
    \/ PoolProbeStart /\ UNCHANGED <<target_url, wp_vars, cp_vars, en_vars, cv_vars, sc_vars>>
    \/ PoolProbeFinish /\ UNCHANGED <<target_url, wp_vars, cp_vars, en_vars, cv_vars, sc_vars>>
    \/ PoolSubmitCves /\ UNCHANGED <<target_url, wp_vars, cp_vars, en_vars, cv_vars, sc_vars>>
    \/ PoolCveStart /\ UNCHANGED <<target_url, wp_vars, cp_vars, en_vars, cv_vars, sc_vars>>
    \/ PoolCveFinish /\ UNCHANGED <<target_url, wp_vars, cp_vars, en_vars, cv_vars, sc_vars>>
    \/ PoolReturn /\ UNCHANGED <<target_url, wp_vars, cp_vars, en_vars, cv_vars, sc_vars>>
SpecPools == PoolsInit /\ [][PoolsNext]_vars

----------------------------------------------------------------------------
(* Claims about is_wordpress *)

WpReturned == wp_pc = "done"

\* C1: in every result is_wordpress returns, whatever signals matched and
\* whichever request failed, the is_wordpress flag is true exactly when the
\* confidence is at least 30.
C1_FlagIffConfidence ==
    WpReturned => (indicators.is_wordpress <=> indicators.confidence >= 30)

\* C1 witness: a single signal of weight 30 with a failed REST probe, the
\* weakest positive detection.
C1_Witness ==
    /\ WpReturned
    /\ rest_response.kind \in NetworkFailures
    /\ indicators.confidence = 30
    /\ indicators.is_wordpress

IsDigitOrDot(c) == c \in DigitChars \cup {"."}

RootFetched == root_response.kind = "response"
RootFailed == root_response.kind \in NetworkFailures
RestMatched ==
    rest_response.kind = "status" /\ rest_response.code = 200 /\ rest_response.namespaces

\* the body holds the text /wp-content/ or /wp-includes/ (a plugin path holds
\* /wp-content/)
PageHasWpPath(html) ==
    \E i \in 1..Len(html) : html[i].kind \in {"path", "plugin"}

\* fragment t is a generator tag of WordPress with a version of digits and dots
IsGeneratorTag(t) ==
    /\ t.kind = "meta"
    /\ t.name \in {"generator", "GENERATOR"}
    /\ t.content \in {"WordPress", "wordpress"}
    /\ Len(t.ver) > 0
    /\ \A k \in 1..Len(t.ver) : IsDigitOrDot(t.ver[k])

GeneratorTags(html) == {i \in 1..Len(html) : IsGeneratorTag(html[i])}

\* C11: after a successful root fetch the confidence is 30 for a wp-content or
\* wp-includes path, plus 40 for a matching generator tag, plus 30 for a REST
\* answer of 200 with 'namespaces'; detected_by lists the matched signals in
\* that order and wp_version is the generator's version; a failed REST probe
\* adds nothing and changes nothing else.
C11_ConfidenceIsSumOfSignals ==
    (WpReturned /\ RootFetched) =>
        LET html == root_response.html
            paths == PageHasWpPath(html)
            meta == GeneratorTags(html) # {}
        IN  /\ indicators.confidence =
                  (IF paths THEN 30 ELSE 0) + (IF meta THEN 40 ELSE 0)
                  + (IF RestMatched THEN 30 ELSE 0)
            /\ indicators.detected_by =
                  (IF paths THEN <<SIG_PATHS>> ELSE <<>>)
                  \o (IF meta THEN <<SIG_META>> ELSE <<>>)
                  \o (IF RestMatched THEN <<SIG_REST>> ELSE <<>>)
            /\ indicators.wp_version =
                  (IF meta THEN html[Min(GeneratorTags(html))].ver ELSE NoneVal)
            /\ indicators.error = NoneVal

\* C11 witness: a page with only the generator tag 'WordPress 6.2' and an
\* unreachable REST endpoint gives confidence 40, is_wordpress and '6.2'.
C11_Witness ==
    /\ WpReturned /\ RootFetched
    /\ root_response.html = <<MetaTok("generator", "WordPress", V_6_2)>>
    /\ rest_response.kind \in NetworkFailures
    /\ indicators.confidence = 40
    /\ indicators.is_wordpress
    /\ indicators.wp_version = V_6_2

\* C12: when the root fetch fails with a network failure the result has the
\* error set, confidence 0, is_wordpress false, no detected signal, and no
\* REST probe was issued.
C12_RootFailureIsReported ==
    (WpReturned /\ RootFailed) =>
        /\ indicators.error # NoneVal
        /\ indicators.confidence = 0
        /\ ~indicators.is_wordpress
        /\ indicators.detected_by = <<>>
        /\ rest_response = NoAnswer
        /\ Len(wp_requests) = 1

\* C12 witness: the root fetch timed out and is_wordpress returned.
C12_Witness ==
    /\ WpReturned
    /\ root_response.kind = "Timeout"
    /\ indicators.error = <<"Timeout">>

\* C21 (as claimed): after a successful root fetch the url field of the
\* result is the post-redirect URL of that fetch (with or without its final
\* slash), also when it differs from the URL the scanner was created with.
C21_UrlIsPostRedirect ==
    (WpReturned /\ RootFetched) =>
        indicators.url \in {root_response.url, rstrip_slash(root_response.url)}

\* the result is_wordpress returns for a root answer and a REST answer
\* (lines 30-50)
DetectionOutcome(root, rest) ==
    decide(signal_rest(signal_meta(signal_paths(wp_initial(NoUrl), root.html), root.html),
                       rest))

\* C26 (as claimed): among the outcomes a returning detection can have, some
\* has a confidence above 100, duplicate signals adding up.
C26_ConfidenceCanExceed100 ==
    WpReturned =>
        \E root \in RootAnswers, rest \in RestAnswers :
            /\ root.kind = "response"
            /\ DetectionOutcome(root, rest).confidence > 100

\* C26 (amended): the confidence is not clamped, yet it never exceeds 100:
\* each of the three signals is counted once however often it occurs in the
\* page (30 + 40 + 30), and 100 is what a page with all three gets.
C26_ConfidenceAtMost100 ==
    WpReturned =>
        /\ indicators.confidence <= 100
        /\ indicators.confidence \in {0, 30, 40, 60, 70, 100}
        /\ indicators.confidence = 100 <=>
              indicators.detected_by = <<SIG_PATHS, SIG_META, SIG_REST>>
        /\ \A i, j \in 1..Len(indicators.detected_by) :
              indicators.detected_by[i] = indicators.detected_by[j] => i = j
        /\ RootFetched =>
              indicators = [DetectionOutcome(root_response, rest_response)
                               EXCEPT !.url = indicators.url]

\* a page with a WordPress path and two generator tags, and a REST answer
\* that matches: every signal is there, one of them twice, and the result is 100
C26_Witness ==
    /\ WpReturned /\ RootFetched /\ RestMatched
    /\ PageHasWpPath(root_response.html)
    /\ Cardinality(GeneratorTags(root_response.html)) = 2
    /\ indicators.confidence = 100

----------------------------------------------------------------------------
(* Claims about check_plugin *)

CpReturned == cp_pc = "done"
ReadmeOk == readme_response.kind = "status" /\ readme_response.code = 200
AssetOk == file_response.kind = "status" /\ file_response.code = 200
HeadIssued == \E i \in 1..Len(cp_requests) : cp_requests[i].method = "HEAD"

\* The 'Stable tag' value of a header line, stated from the pattern: the key
\* is 'Stable tag' in any case, and after leading spaces the value starts
\* with v, a longest non-empty run of digits and dots.
IsNumericChar(c) == c \in DigitChars \cup {"."}

StableTagValue(line, v) ==
    /\ line.key \in {"Stable tag", "STABLE TAG"}
    /\ v # <<>>
    /\ \E n \in 0..Len(line.value) :
        /\ \A k \in 1..n : line.value[k] = " "
        /\ n + Len(v) <= Len(line.value)
        /\ \A k \in 1..Len(v) : line.value[n + k] = v[k] /\ IsNumericChar(v[k])
        /\ n + Len(v) = Len(line.value) \/ ~IsNumericChar(line.value[n + Len(v) + 1])

HasStableTag(line) ==
    \E m \in 1..Len(line.value) : \E n \in 0..(Len(line.value) - m) :
        StableTagValue(line, SubSeq(line.value, n + 1, n + m))

\* C9: a readme.txt answer of 200 gives installed by 'readme.txt' with the
\* version of the first 'Stable tag' the pattern matches (unset when none)
\* and no HEAD request; otherwise an asset answer of 200 gives installed by
\* 'asset file' with no version; otherwise not installed, nothing set.
C9_CheckOrder ==
    CpReturned =>
        /\ cp_requests[1].method = "GET"
        /\ IF ReadmeOk
           THEN /\ cp_result.is_installed
                /\ cp_result.detected_by = README_TXT
                /\ ~HeadIssued
                /\ LET text == readme_response.text
                       tagged == {i \in 1..Len(text) : HasStableTag(text[i])}
                   IN  IF tagged = {} THEN cp_result.version = NoneVal
                       ELSE StableTagValue(text[Min(tagged)], cp_result.version)
           ELSE IF AssetOk
           THEN /\ cp_result.is_installed
                /\ cp_result.detected_by = ASSET_FILE
                /\ cp_result.version = NoneVal
                /\ HeadIssued
           ELSE /\ ~cp_result.is_installed
                /\ cp_result.version = NoneVal
                /\ cp_result.detected_by = NoneVal

\* C9 witness: contact-form-7's readme.txt answers 200 with a later
\* 'Stable tag' line of 5.4.2 and the call returns version 5.4.2.
C9_Witness ==
    /\ CpReturned /\ ReadmeOk
    /\ cp_slug = "contact-form-7"
    /\ Len(readme_response.text) = 2
    /\ readme_response.text[1].key = "Tested up to"
    /\ cp_result.version = V_5_4_2
    /\ cp_result.detected_by = README_TXT

\* C10: no failure of a request of check_plugin is raised to the caller: after
\* a failed readme.txt request the asset check still runs, and the call
\* returns a result, which is 'not installed' when both methods fail.
C10_FailuresNotRaised ==
    /\ cp_pc # "raised"
    /\ (cp_pc \in {"asset", "done"} /\ ~ReadmeOk) =>
           (cp_pc = "asset" \/ HeadIssued)
    /\ CpReturned =>
           /\ cp_result.is_installed \in BOOLEAN
           /\ (~ReadmeOk /\ ~AssetOk) => ~cp_result.is_installed

\* C10 witness: the readme.txt request failed with a connection error, the
\* asset request with a connection error too, and not installed is returned.
C10_Witness ==
    /\ CpReturned
    /\ readme_response.kind = "ConnectionError"
    /\ file_response.kind = "ConnectionError"
    /\ ~cp_result.is_installed

HasPathSeparator(slug) == Len(slug_segments(slug)) > 1

\* the slug with its path separators percent-encoded
PercentEncoded(slug) == IF slug = "foo/bar" THEN "foo%2Fbar" ELSE slug

\* the plugin directory a request is addressed to: the segment that follows
\* <target>/wp-content/plugins/
PluginDirectory(url) == url.path[Len(target_url.path) + 3]

\* C19 (as claimed): check_plugin sends no request whose URL holds, unencoded,
\* a slug with a path separator: for such a slug either no request is sent, or
\* the slug stands percent-encoded as the one directory under
\* wp-content/plugins/.
C19_NoRawSeparatorInUrl ==
    HasPathSeparator(cp_slug) =>
        \A i \in 1..Len(cp_requests) :
            PluginDirectory(cp_requests[i].url) = PercentEncoded(cp_slug)

----------------------------------------------------------------------------
(* Claims about enumerate_plugins *)

EnReturned == en_pc = "done"

HtmlProbes == {i \in 1..Len(en_probes) : en_probes[i].stage = "html"}
ListProbes == {i \in 1..Len(en_probes) : en_probes[i].stage = "list"}

\* C2 (as claimed): a slug probed in the HTML stage is never probed in the
\* candidate-list stage, whatever its probe answered.
C2_ScrapedNeverReprobed ==
    \A i \in HtmlProbes : \A j \in ListProbes : en_probes[i].slug # en_probes[j].slug

\* C2 (amended): a slug whose probe in the HTML stage reported it installed is
\* never probed in the candidate-list stage.
C2_InstalledScrapedNeverReprobed ==
    \A i \in HtmlProbes : \A j \in ListProbes :
        en_probes[i].found = "yes" => en_probes[i].slug # en_probes[j].slug

\* C2 witness: a scraped slug was found installed, the loaded list names it,
\* other slugs of the list were probed, and the enumeration returned.
C2_Witness ==
    /\ EnReturned
    /\ ListProbes # {}
    /\ \E i \in HtmlProbes :
        /\ en_probes[i].found = "yes"
        /\ \E k \in 1..Len(common_plugins) : common_plugins[k] = en_probes[i].slug

\* the candidate-slug list before the scan level is applied
CandidateSlugs ==
    IF plugin_file.kind = "file" THEN stripped_lines(plugin_file.lines) ELSE default_list

ListLoaded == en_pc \in {"pool", "done"}

\* C13 (as claimed): for a positive scan level N the candidate-list stage
\* considers the first N entries of the candidate-slug list (all when there
\* are fewer), from the file or from the built-in default list alike; for -1
\* it considers every entry.
C13_FirstNCandidates ==
    ListLoaded =>
        /\ common_plugins =
              (IF en_scan_level = -1 THEN CandidateSlugs
               ELSE SubSeq(CandidateSlugs, 1, Min({en_scan_level, Len(CandidateSlugs)})))
        /\ \A i \in 1..Len(futures) :
              \E k \in 1..Len(common_plugins) : futures[i].slug = common_plugins[k]

\* C16 (as claimed): a slug is never recorded as installed a second time: the
\* returned plugin list holds at most one record per slug, for every scraped
\* page and every loaded candidate-slug list.
C16_OneRecordPerSlug ==
    EnReturned =>
        \A i, j \in 1..Len(en_result.plugins) :
            en_result.plugins[i].plugin_slug = en_result.plugins[j].plugin_slug => i = j

\* the records the HTML stage appended, by number
HtmlInstalled == Cardinality({i \in HtmlProbes : en_probes[i].found = "yes"})

IsInstalledFuture(f) == f.result.is_installed

\* the installed results of the probes collected so far, in submission order
CollectedInstalled ==
    LET done == SelectSeq(SubSeq(futures, 1, en_next - 1), IsInstalledFuture)
    IN  [i \in 1..Len(done) |-> done[i].result]

\* C25: during the candidate-list stage, whatever the workers have started or
\* finished and in whatever order, the plugin list is the records of the HTML
\* stage followed by exactly the installed results of the probes the
\* coordinating loop has collected, in submission order, and the
\* discovered-slug set is the slugs of that list; at the return every
\* submitted probe has been collected, so none is lost and none is doubled.
C25_OnlyCoordinatorWritesResults ==
    ListLoaded =>
        /\ Len(en_result.plugins) = HtmlInstalled + Len(CollectedInstalled)
        /\ SubSeq(en_result.plugins, HtmlInstalled + 1, Len(en_result.plugins))
              = CollectedInstalled
        /\ found_slugs = {en_result.plugins[i].plugin_slug : i \in 1..Len(en_result.plugins)}
        /\ EnReturned => /\ en_next = Len(futures) + 1
                         /\ \A i \in 1..Len(futures) : futures[i].state = "done"

\* a later probe has finished while an earlier one is still running and the
\* loop waits for it; a record of the HTML stage is already in the list
C25_Witness ==
    /\ en_pc = "pool"
    /\ Len(futures) >= 2
    /\ en_next = 1
    /\ futures[1].state = "running"
    /\ futures[2].state = "done" /\ futures[2].result.is_installed
    /\ HtmlInstalled = 1

\* the root GET of enumerate_plugins raised
EnRootFailed == en_root.kind \in NetworkFailures

\* C27: a failed root fetch does not end the enumeration: no slug comes from
\* the HTML, the candidate-list stage runs over the whole loaded list, and the
\* run returns; every returned result has total_found equal to the number of
\* its plugin records, each with is_installed true.
C27_RootFailureDoesNotAbort ==
    /\ en_pc # "raised"
    /\ (EnRootFailed /\ en_pc # "root") =>
          /\ en_html_todo = {} /\ HtmlProbes = {}
          /\ \A i \in 1..Len(en_result.detection_methods) :
                en_result.detection_methods[i] # METHOD_HTML
    /\ (EnRootFailed /\ ListLoaded) =>
          /\ [i \in 1..Len(futures) |-> futures[i].slug] = common_plugins
          /\ \E i \in 1..Len(en_result.detection_methods) :
                en_result.detection_methods[i] = METHOD_COMMON
    /\ EnReturned =>
          /\ en_result.total_found = Len(en_result.plugins)
          /\ \A i \in 1..Len(en_result.plugins) : en_result.plugins[i].is_installed
          /\ \A i \in 1..Len(futures) : futures[i].state = "done"

\* an enumeration whose root fetch failed has returned a plugin found by the
\* candidate-list stage
C27_Witness ==
    /\ EnReturned
    /\ EnRootFailed
    /\ Len(common_plugins) >= 2
    /\ en_result.total_found >= 1

----------------------------------------------------------------------------
(* Claims about get_plugin_cves *)

CvReturned == cv_pc = "done"
HasCredential == Truthy(api_token)
PaidQueried == \E i \in 1..Len(cv_requests) : cv_requests[i] = "paid"
RegistryFailed == wp_response.kind \in {"raise", "status"}
RegistryOk == wp_response.kind = "ok"
PaidOk == api_response.kind = "ok"

\* The reference comparison of the specification: a text of digit runs
\* separated by single dots, compared run by run as integers, the shorter
\* sequence padded with zeros.
WellFormed(s) ==
    /\ s # NoneVal
    /\ Len(s) > 0
    /\ \A i \in 1..Len(s) : s[i] \in DigitChars \cup {"."}
    /\ s[1] # "." /\ s[Len(s)] # "."
    /\ \A i \in 1..(Len(s) - 1) : ~(s[i] = "." /\ s[i + 1] = ".")

RECURSIVE SplitDots(_)
SplitDots(s) ==
    LET dots == {i \in 1..Len(s) : s[i] = "."}
    IN  IF dots = {} THEN <<IntOf(s)>>
        ELSE <<IntOf(SubSeq(s, 1, Min(dots) - 1))>>
                 \o SplitDots(SubSeq(s, Min(dots) + 1, Len(s)))

PaddedLess(a, b) ==
    LET n == IF Len(a) < Len(b) THEN Len(b) ELSE Len(a)
        at(x, i) == IF i <= Len(x) THEN x[i] ELSE 0
        d == {i \in 1..n : at(a, i) # at(b, i)}
    IN  d # {} /\ at(a, Min(d)) < at(b, Min(d))

RefLess(v, w) == PaddedLess(SplitDots(v), SplitDots(w))

Reported(vuln, fixed) ==
    \E j \in 1..Len(cv_result.vulnerabilities) :
        cv_result.vulnerabilities[j] = Finding(vuln, fixed)

\* C3 (as claimed): with no credential and a registry answer of 200, for
\* installed and latest versions of digits and dots, is_outdated equals the
\* zero-padded dotted-numeric comparison (so 1.0 is not older than 1.0.0).
C3_OutdatedIsPaddedNumeric ==
    (/\ CvReturned /\ ~HasCredential /\ RegistryOk
     /\ WellFormed(cv_version) /\ WellFormed(wp_response.version))
        => (cv_result.is_outdated = RefLess(cv_version, wp_response.version))

\* C4 (as claimed): if the registry call raises or answers a status other than
\* 200, the returned report has is_outdated true, whatever the paid API says.
C4_FailedRegistryAlwaysOutdated ==
    (CvReturned /\ RegistryFailed) => cv_result.is_outdated

\* tier 2 recomputed is_outdated and found the installed version not older
PaidSaysNotOlder ==
    /\ PaidQueried /\ PaidOk /\ api_response.has_entry
    /\ Truthy(api_response.latest_version) /\ Truthy(cv_version)
    /\ version_lt(cv_version, api_response.latest_version) \in {"eq", "gt"}

\* C4 (amended): if the registry call fails, is_outdated is true when tier 1
\* ends, and it is true in the returned report unless tier 2 received a 200
\* answer with a latest version, the installed version is known and is not
\* older than that latest version.
C4_FailedRegistryOutdatedUnlessPaidOverrides ==
    RegistryFailed =>
        /\ cv_tier1.is_outdated
        /\ cv_pc = "tier2" => cv_result.is_outdated
        /\ CvReturned => (cv_result.is_outdated = ~PaidSaysNotOlder)

\* C4 witness: the registry call failed, tier 2 got a latest version for a
\* known installed version, and the report still says outdated.
C4_Witness ==
    /\ CvReturned /\ RegistryFailed /\ PaidQueried /\ PaidOk
    /\ Truthy(api_response.latest_version) /\ Truthy(cv_version)
    /\ cv_result.is_outdated

\* C5 (as claimed): when tier 2 receives 200 and the installed version is
\* known, a vulnerability with a fixed-in version is reported if and only if
\* installed < fixed-in in the dotted-numeric comparison, and is reported when
\* the comparison raises.
C5_FixedVulnReportedIffOlder ==
    (CvReturned /\ PaidQueried /\ PaidOk /\ WellFormed(cv_version)) =>
        \A i \in 1..Len(api_response.vulnerabilities) :
            LET vuln == api_response.vulnerabilities[i]
            IN  /\ WellFormed(vuln.fixed_in) =>
                     (Reported(vuln, vuln.fixed_in) <=> RefLess(cv_version, vuln.fixed_in))
                /\ (Truthy(vuln.fixed_in)
                    /\ version_lt(cv_version, vuln.fixed_in) = "TypeError")
                       => Reported(vuln, vuln.fixed_in)

\* C6 (as claimed): whenever tier 2 runs and the paid API answers 200, every
\* vulnerability without a fixed-in version is reported as 'Not fixed'.
C6_UnfixedVulnAlwaysReported ==
    (CvReturned /\ PaidQueried /\ PaidOk) =>
        \A i \in 1..Len(api_response.vulnerabilities) :
            LET vuln == api_response.vulnerabilities[i]
            IN  ~Truthy(vuln.fixed_in) => Reported(vuln, NOT_FIXED)

\* C7: the paid API is queried if and only if a credential is configured and
\* (tier 1 marked the plugin outdated, or an installed version is known and no
\* registry latest version was resolved); without a credential it is never
\* queried and nothing is reported: installed 5.4.2 with registry latest 5.5.0
\* gives is_outdated, the plain registry label and no findings.
C7_PaidQueriedIffGate ==
    CvReturned =>
        /\ PaidQueried <=>
             (HasCredential /\ (cv_tier1.is_outdated
                                \/ (Truthy(cv_version) /\ ~Truthy(cv_tier1.latest_version))))
        /\ ~HasCredential => (~PaidQueried /\ cv_result.vulnerabilities = <<>>)
        /\ (~HasCredential /\ cv_version = V_5_4_2 /\ RegistryOk
            /\ wp_response.version = V_5_5_0)
               => (cv_result.is_outdated /\ cv_result.source = SRC_FREE
                   /\ cv_result.vulnerabilities = <<>>)

\* C7 witness: the scenario of the specification has returned.
C7_Witness ==
    /\ CvReturned /\ ~HasCredential /\ cv_version = V_5_4_2
    /\ RegistryOk /\ wp_response.version = V_5_5_0
    /\ ~PaidQueried

\* C8 (as claimed): the label is the paid one whenever tier 2 executed; the
\* 'up to date' label only when tier 2 did not run, the plugin is not outdated
\* and a credential exists; the plain registry label otherwise.
C8_SourceLabel ==
    CvReturned =>
        cv_result.source =
            (IF PaidQueried THEN SRC_PAID
             ELSE IF ~cv_result.is_outdated /\ HasCredential THEN SRC_UP_TO_DATE
             ELSE SRC_FREE)

\* a call of tier 1 raised: the registry request, or json() on its body
Tier1Raised == wp_response.kind \in {"raise", "badjson"}

\* a call of tier 2 raised: the paid API's request, or json() on its body
Tier2Raised == api_response.kind \in {"raise", "badjson"}

\* C17 (as claimed): whenever a call in tier 1 or in tier 2 raises, the
\* returned report carries an error field describing it.
C17_RaisedCallSetsError ==
    (CvReturned /\ (Tier1Raised \/ Tier2Raised)) => cv_result.error # NoneVal

\* C22 (as claimed): when tier 2 runs with no installed version known and the
\* paid API answers 200, every vulnerability of the answer is in the report,
\* with or without a fixed-in version.
C22_NoVersionNoFilter ==
    (CvReturned /\ PaidQueried /\ PaidOk /\ ~Truthy(cv_version)) =>
        \A i \in 1..Len(api_response.vulnerabilities) :
            LET vuln == api_response.vulnerabilities[i]
            IN  Reported(vuln, IF Truthy(vuln.fixed_in) THEN vuln.fixed_in ELSE NOT_FIXED)

\* the paid API answered 200 with a latest version for the slug
PaidHasLatest == PaidOk /\ api_response.has_entry /\ Truthy(api_response.latest_version)

\* C23 (as claimed): when tier 2 gets a 200 answer with a latest version, the
\* report's latest_version is the paid API's value and, for a known installed
\* version, is_outdated is installed < that latest version (dotted-numeric,
\* the shorter padded with zeros), whatever tier 1 had set.
C23_PaidLatestReplacesRegistry ==
    (CvReturned /\ PaidQueried /\ PaidHasLatest) =>
        /\ cv_result.latest_version = api_response.latest_version
        /\ (WellFormed(cv_version) /\ WellFormed(api_response.latest_version)) =>
               (cv_result.is_outdated = RefLess(cv_version, api_response.latest_version))

----------------------------------------------------------------------------
(* Claims about start_scan *)

ScanReturned == sc_pc = "done"

\* the calls of get_plugin_cves a worker has taken
CvesStarted == {i \in 1..Len(cve_futures) : cve_futures[i].state # "queued"}

\* C15: no call of get_plugin_cves is submitted or started before
\* enumerate_plugins has returned: every submitted candidate probe has
\* completed and was collected, and the plugin list is the final one.
C15_ResolutionAfterEnumeration ==
    (sc_pc = "resolve" \/ cve_futures # <<>> \/ cve_results # <<>>) =>
        /\ en_pc = "done"
        /\ \A i \in 1..Len(futures) : futures[i].state = "done"
        /\ en_next = Len(futures) + 1
        /\ en_result.total_found = Len(en_result.plugins)
        /\ Len(cve_futures) = Len(en_result.plugins)
        /\ \A i \in 1..Len(cve_futures) :
              cve_futures[i].slug = en_result.plugins[i].plugin_slug

\* C15 witness: a call of get_plugin_cves is running after two candidate
\* probes were submitted and completed.
C15_Witness ==
    /\ \E i \in CvesStarted : cve_futures[i].state = "running"
    /\ Len(futures) = 2
    /\ \A i \in 1..Len(futures) : futures[i].state = "done"
    /\ en_pc = "done"

\* C18: the scan of a WordPress site returns one vulnerability report per
\* discovered plugin, in the order of the plugin list, whatever calls of the
\* registry and of the paid API failed.
C18_OneReportPerPlugin ==
    (ScanReturned /\ indicators.is_wordpress) =>
        /\ Len(cve_results) = Len(en_result.plugins)
        /\ \A i \in 1..Len(cve_results) :
              /\ cve_results[i].plugin_slug = en_result.plugins[i].plugin_slug
              /\ cve_results[i].version = en_result.plugins[i].version

\* C18 witness: three plugins were discovered; the resolution of the first
\* failed in both tiers and the later ones still have their reports.
C18_Witness ==
    /\ ScanReturned /\ indicators.is_wordpress
    /\ Len(en_result.plugins) = 3
    /\ Len(cve_results) = 3
    /\ cve_results[1].error # NoneVal
    /\ cve_results[2].error = NoneVal
    /\ cve_results[3].vulnerabilities # <<>>

\* url is base followed by further path segments
UnderUrl(url, base) ==
    /\ url.host = base.host
    /\ Len(url.path) > Len(base.path)
    /\ SubSeq(url.path, 1, Len(base.path)) = base.path

\* C20 (as claimed): once the root fetch of is_wordpress has answered, the
\* post-redirect URL is the base of every later probe of the scan: the REST
\* probe and the readme.txt or asset file of every plugin found are addressed
\* under it.
C20_ProbesUnderPostRedirectUrl ==
    RootFetched =>
        LET canonical == rstrip_slash(root_response.url)
        IN  /\ target_url = canonical
            /\ \A i \in 2..Len(wp_requests) : UnderUrl(wp_requests[i], canonical)
            /\ en_result # NoResult =>
                  \A i \in 1..Len(en_result.plugins) :
                      UnderUrl(en_result.plugins[i].plugin_url, canonical)

\* is_wordpress has returned a negative result
DetectionNegative == wp_pc = "done" /\ ~indicators.is_wordpress

\* C24: after a negative detection (a failed root fetch included) the scan
\* sends no plugin probe and no vulnerability lookup, and the report it
\* returns has the detection result as its only key; enumeration is started
\* only after a positive detection.
C24_NegativeDetectionEndsScan ==
    /\ DetectionNegative =>
          /\ en_pc = "idle" /\ en_root = NoAnswer /\ en_probes = <<>>
          /\ en_result = NoResult
          /\ cve_futures = <<>> /\ cve_results = <<>>
    /\ (ScanReturned /\ DetectionNegative) =>
          /\ DOMAIN results = {"wp_check"}
          /\ results.wp_check = indicators
    /\ en_pc # "idle" => (wp_pc = "done" /\ indicators.is_wordpress)

\* a scan has returned after the root fetch of is_wordpress failed
C24_Witness ==
    /\ ScanReturned
    /\ RootFailed
    /\ DetectionNegative
    /\ results = [wp_check |-> indicators]

----------------------------------------------------------------------------
(* Claims about the worker pools *)

\* C14: at every moment at most 20 candidate probes are in flight and at most
\* 10 vulnerability resolutions are in flight, however many were submitted.
C14_BoundedInFlight ==
    /\ probes_in_flight <= 20
    /\ cves_in_flight <= 10

\* C14 witness: 20 probes were in flight while more were waiting, and now 10
\* resolutions are in flight while more are waiting.
C14_Witness ==
    /\ probes_done > 20
    /\ probes_peak = 20
    /\ cves_in_flight = 10
    /\ cves_queued > 0

====
